---- MODULE Spec2Model ----
(***************************************************************************)
(* leaderboard.SkipList (src/leaderboard/skiplist.go): a skip list keyed   *)
(* by (score descending, user ascending), guarded by one sync.RWMutex.     *)
(*                                                                         *)
(* Pointers are node identifiers: head is the sentinel allocated by        *)
(* NewSkipList, Nil is the nil pointer, NodeIds are the cells the Go       *)
(* allocator can hand out.  A cell that no root reaches is garbage: it is  *)
(* zeroed (as &node{...} would find it) and can be allocated again.        *)
(* core.UserID is a string compared with <; user ids are modelled by their *)
(* rank in that order, the empty string being rank 0.                      *)
(***************************************************************************)
EXTENDS Integers, Sequences, FiniteSets, TLC

\* ------------------------------------------------------------------ bounds

\* Writers of the concurrent-writers scenario (WritersSpec).
NumWriters == 3

\* Node cells available to the allocator.
MaxNodes == 4

\* Longest run of successful coin flips the generator produces.
MaxSuccesses == 1

\* Width of a score in bits: int64 scaled down, two's complement.
ScoreBits == 5

\* Longest free sequence of coin flips before the failure that ends it
\* (LevelSpec).
MaxFlips == 3

\* ------------------------------------------------------- program constants

maxLevel == 16

\* pFactor = 0.25, in hundredths: a draw d of rng.Float64() is d/100.
pFactor == 25

Nil == -1

head == 0

EmptyUser == 0

\* ------------------------------------------------------------- input sets

\* The goroutines calling the board concurrently.
Procs == {1, 2}

NodeIds == 1..MaxNodes

Nodes == {head} \cup NodeIds

Levels == 0..(maxLevel - 1)

\* "" < "a" < "b"
Users == {0, 1, 2}

Scores == {-5, 0}

\* The ends of the range of a score (Score int64).
MinScore == -(2 ^ (ScoreBits - 1))

MaxScore == 2 ^ (ScoreBits - 1) - 1

\* The scores of the calls at the extremes: the minimum, a negative value,
\* zero and the maximum.
ExtremeScores == {MinScore, -1, 0, MaxScore}

\* Arguments of TopN.
Counts == {0, 1, 3}

\* Draws of rng.Float64(), in hundredths: 24 succeeds, 25 fails.
CoinRuns == {[i \in 1..(k + 1) |-> IF i <= k THEN 24 ELSE 25] : k \in 0..MaxSuccesses}

\* Draws that give the levels 1, 2, maxLevel - 1 and maxLevel: the last is
\* maxLevel - 1 successes, after which the loop ends without a further draw.
TallRuns ==
    {[i \in 1..(k + 1) |-> IF i <= k THEN 24 ELSE 25] : k \in {0, 1, maxLevel - 2}}
        \cup {[i \in 1..(maxLevel - 1) |-> 24]}

\* Values of rng.Float64(), in hundredths: the least, the greatest below
\* pFactor, pFactor itself and the greatest.
Flips == {0, 24, 25, 99}

\* Every sequence of at most MaxFlips flips.
ShortFlips == UNION {[1..n -> Flips] : n \in 0..MaxFlips}

\* Streams of the generator: every short sequence followed by a failure, and
\* runs of maxLevel - 2 to maxLevel + 1 successes followed by a failure and a
\* success.
FlipRuns ==
    {f \o <<25>> : f \in ShortFlips}
        \cup {[i \in 1..(k + 2) |-> IF i <= k THEN 24 ELSE IF i = k + 1 THEN 99 ELSE 0] :
                  k \in (maxLevel - 2)..(maxLevel + 1)}

\* ------------------------------------------------------------------ Entry

Entry(u, s) == [User |-> u, Score |-> s]

ZeroEntry == Entry(EmptyUser, 0)

NilNext == [i \in Levels |-> Nil]

\* ------------------------------------------------------------------ state

VARIABLES
    e,       \* node.e of every cell
    next,    \* node.next of every cell
    lvl,     \* SkipList.lvl
    byUser,  \* SkipList.byUser: a function on the users it holds
    mu,      \* SkipList.mu: the writer holding it and the readers holding it
    pc,      \* where each goroutine is in its call
    call,    \* the call each goroutine is in, with its arguments
    res,     \* the value a TopN or Get is about to return
    last     \* history: user -> score of the user's last completed Update, for
             \* the users with no completed Remove since

vars == <<e, next, lvl, byUser, mu, pc, call, res, last>>

\* The SkipList fields as one value, for the operators below.
SL == [e |-> e, next |-> next, lvl |-> lvl, byUser |-> byUser]

NewSkipList ==
    [e      |-> [n \in Nodes |-> ZeroEntry],
     next   |-> [n \in Nodes |-> NilNext],
     lvl    |-> 1,
     byUser |-> <<>>]

\* ------------------------------------------------------------ randomLevel

\* Faulty variant: the loop has no lvl < maxLevel.
RECURSIVE levelLoopNoCap(_, _, _)
levelLoopNoCap(draws, i, l) ==
    IF i <= Len(draws) /\ draws[i] < pFactor
    THEN levelLoopNoCap(draws, i + 1, l + 1)
    ELSE l

\* Faulty variant: a flip that fails does not end the loop.
RECURSIVE levelLoopCountsAll(_, _, _)
levelLoopCountsAll(draws, i, l) ==
    IF l < maxLevel /\ i <= Len(draws)
    THEN levelLoopCountsAll(draws, i + 1, IF draws[i] < pFactor THEN l + 1 ELSE l)
    ELSE l

\* for lvl < maxLevel && s.rng.Float64() < pFactor { lvl++ }; draws is the
\* stream of values the generator returns, i the next draw to take.
RECURSIVE levelLoop(_, _, _)
levelLoop(draws, i, l) ==
    IF l < maxLevel /\ i <= Len(draws) /\ draws[i] < pFactor
    THEN levelLoop(draws, i + 1, l + 1)
    ELSE l

randomLevel(draws) == levelLoop(draws, 1, 1)

\* ------------------------------------------------------------------- less

\* Faulty variant: the tie-break on the user id is left out.
lessNoTie(a, b) == a.Score > b.Score

\* The sum or difference x of two scores as the machine keeps it: reduced
\* into the range of the score type.
Wrap(x) == ((x - MinScore) % (2 ^ ScoreBits)) + MinScore

\* Faulty variant: scores are compared by the sign of their difference.
lessBySubtraction(a, b) ==
    IF a.Score = b.Score
    THEN a.User < b.User
    ELSE Wrap(a.Score - b.Score) > 0

\* Faulty variant: on equal scores the greater user id goes first.
lessTieDescending(a, b) ==
    IF a.Score = b.Score
    THEN a.User > b.User
    ELSE a.Score > b.Score

\* Faulty variant: an entry comes before itself.
lessReflexive(a, b) ==
    IF a.Score = b.Score
    THEN a.User <= b.User
    ELSE a.Score > b.Score

less(a, b) ==
    IF a.Score = b.Score
    THEN a.User < b.User
    ELSE a.Score > b.Score

\* ----------------------------------------------------------------- search

\* Faulty variant: the loop also passes the entries of the target's score.
RECURSIVE walkPastTies(_, _, _, _)
walkPastTies(s, cur, i, x) ==
    IF s.next[cur][i] # Nil
          /\ (less(s.e[s.next[cur][i]], x) \/ s.e[s.next[cur][i]].Score = x.Score)
    THEN walkPastTies(s, s.next[cur][i], i, x)
    ELSE cur

\* Faulty variant: the inner loop is an if and advances once at most.
walkOneStep(s, cur, i, x) ==
    IF s.next[cur][i] # Nil /\ less(s.e[s.next[cur][i]], x)
    THEN s.next[cur][i]
    ELSE cur

\* The inner loop of the leveled search at level i, from cur.
RECURSIVE walk(_, _, _, _)
walk(s, cur, i, x) ==
    IF s.next[cur][i] # Nil /\ less(s.e[s.next[cur][i]], x)
    THEN walk(s, s.next[cur][i], i, x)
    ELSE cur

\* Faulty variant: update[i] = cur stands before the inner loop.
RECURSIVE descendRecordsBefore(_, _, _, _, _)
descendRecordsBefore(s, x, i, cur, update) ==
    IF i < 0
    THEN update
    ELSE descendRecordsBefore(s, x, i - 1, walk(s, cur, i, x),
                              [update EXCEPT ![i] = cur])

\* The outer loop: for i := s.lvl - 1; i >= 0; i-- { ...; update[i] = cur }.
RECURSIVE descend(_, _, _, _, _)
descend(s, x, i, cur, update) ==
    IF i < 0
    THEN update
    ELSE descend(s, x, i - 1, walk(s, cur, i, x),
                 [update EXCEPT ![i] = walk(s, cur, i, x)])

\* The update vector the search leaves, all nil before the search.
search(s, x) == descend(s, x, s.lvl - 1, head, NilNext)

\* ----------------------------------------------------------- removeLocked

\* Faulty variant: the target is unlinked at level 0 only.
unlinkBottomOnly(nx, update, target, i, top) ==
    IF nx[update[0]][0] = target
    THEN [nx EXCEPT ![update[0]][0] = nx[target][0]]
    ELSE nx

\* Faulty variant: the predecessor is re-pointed to nil, not to target.next[i].
RECURSIVE unlinkCutsChain(_, _, _, _, _)
unlinkCutsChain(nx, update, target, i, top) ==
    IF i >= top
    THEN nx
    ELSE unlinkCutsChain(IF nx[update[i]][i] = target
                         THEN [nx EXCEPT ![update[i]][i] = Nil]
                         ELSE nx,
                         update, target, i + 1, top)

\* for i := 0; i < s.lvl; i++ { if update[i].next[i] == target { ... } }
RECURSIVE unlink(_, _, _, _, _)
unlink(nx, update, target, i, top) ==
    IF i >= top
    THEN nx
    ELSE unlink(IF nx[update[i]][i] = target
                THEN [nx EXCEPT ![update[i]][i] = nx[target][i]]
                ELSE nx,
                update, target, i + 1, top)

\* Faulty variant: the level is lowered once, not in a loop.
shrinkOnce(nx, l) ==
    IF l > 1 /\ nx[head][l - 1] = Nil
    THEN l - 1
    ELSE l

\* for s.lvl > 1 && s.head.next[s.lvl-1] == nil { s.lvl-- }
RECURSIVE shrink(_, _)
shrink(nx, l) ==
    IF l > 1 /\ nx[head][l - 1] = Nil
    THEN shrink(nx, l - 1)
    ELSE l

\* delete(m, k) and m[k] = v on a Go map.
delete(m, u) == [v \in (DOMAIN m) \ {u} |-> m[v]]

put(m, u, x) == [v \in (DOMAIN m) \cup {u} |-> IF v = u THEN x ELSE m[v]]

\* Faulty variant: s.lvl is not lowered after the unlink.
removeLockedNoShrink(s, user, x) ==
    LET update == search(s, x)
        target == s.next[update[0]][0]
    IN  IF target = Nil \/ s.e[target].User # user
        THEN s
        ELSE LET nx == unlink(s.next, update, target, 0, s.lvl)
             IN  [s EXCEPT !.next = nx, !.byUser = delete(s.byUser, user)]

\* Faulty variant: a target whose Entry is the zero value is taken for the head.
removeLockedZeroIsHead(s, user, x) ==
    LET update == search(s, x)
        target == s.next[update[0]][0]
    IN  IF target = Nil \/ s.e[target] = s.e[head] \/ s.e[target].User # user
        THEN s
        ELSE LET nx == unlink(s.next, update, target, 0, s.lvl)
             IN  [s EXCEPT !.next = nx,
                           !.byUser = delete(s.byUser, user),
                           !.lvl = shrink(nx, s.lvl)]

\* Faulty variant: delete(s.byUser, user) is left out.
removeLockedKeepsIndex(s, user, x) ==
    LET update == search(s, x)
        target == s.next[update[0]][0]
    IN  IF target = Nil \/ s.e[target].User # user
        THEN s
        ELSE LET nx == unlink(s.next, update, target, 0, s.lvl)
             IN  [s EXCEPT !.next = nx, !.lvl = shrink(nx, s.lvl)]

\* Faulty variant: the target stays linked, only the index forgets it.
removeLockedKeepsNode(s, user, x) ==
    LET update == search(s, x)
        target == s.next[update[0]][0]
    IN  IF target = Nil \/ s.e[target].User # user
        THEN s
        ELSE [s EXCEPT !.byUser = delete(s.byUser, user)]

removeLocked(s, user, x) ==
    LET update == search(s, x)
        target == s.next[update[0]][0]
    IN  IF target = Nil \/ s.e[target].User # user
        THEN s
        ELSE LET nx == unlink(s.next, update, target, 0, s.lvl)
             IN  [s EXCEPT !.next = nx,
                           !.byUser = delete(s.byUser, user),
                           !.lvl = shrink(nx, s.lvl)]

\* ----------------------------------------------------------------- Update

\* Faulty variant: the old node is left in place.
removeOldSkipped(s, user) == s

\* Lines 67-70: if old, ok := s.byUser[user]; ok { s.removeLocked(user, old.e) }
removeOld(s, user) ==
    IF user \in DOMAIN s.byUser
    THEN removeLocked(s, user, s.e[s.byUser[user]])
    ELSE s

\* Faulty variant: n.next[i] = update[i].next[i] is left out.
RECURSIVE spliceDropsSuccessor(_, _, _, _, _)
spliceDropsSuccessor(nx, update, n, i, l) ==
    IF i >= l
    THEN nx
    ELSE spliceDropsSuccessor([nx EXCEPT ![update[i]][i] = n], update, n, i + 1, l)

\* for i := 0; i < lvl; i++ { n.next[i] = update[i].next[i]; update[i].next[i] = n }
RECURSIVE splice(_, _, _, _, _)
splice(nx, update, n, i, l) ==
    IF i >= l
    THEN nx
    ELSE splice([nx EXCEPT ![n][i] = nx[update[i]][i], ![update[i]][i] = n],
                update, n, i + 1, l)

\* Faulty variant: s.byUser[user] = n is left out.
insertNoIndex(s, user, score, draws, n) ==
    LET x      == Entry(user, score)
        found  == search(s, x)
        l      == randomLevel(draws)
        update == [i \in Levels |-> IF l > s.lvl /\ i >= s.lvl /\ i < l
                                    THEN head ELSE found[i]]
        fresh  == [s.next EXCEPT ![n] = NilNext]
    IN  [s EXCEPT !.e = [s.e EXCEPT ![n] = x],
                  !.next = splice(fresh, update, n, 0, l),
                  !.lvl = IF l > s.lvl THEN l ELSE s.lvl]

\* Faulty variant: a score the board already holds is not inserted again.
insertSkipsEqualScore(s, user, score, draws, n) ==
    LET x      == Entry(user, score)
        found  == search(s, x)
        l      == randomLevel(draws)
        update == [i \in Levels |-> IF l > s.lvl /\ i >= s.lvl /\ i < l
                                    THEN head ELSE found[i]]
        fresh  == [s.next EXCEPT ![n] = NilNext]
    IN  IF \E u \in DOMAIN s.byUser : s.e[s.byUser[u]].Score = score
        THEN s
        ELSE [s EXCEPT !.e = [s.e EXCEPT ![n] = x],
                       !.next = splice(fresh, update, n, 0, l),
                       !.lvl = IF l > s.lvl THEN l ELSE s.lvl,
                       !.byUser = put(s.byUser, user, n)]

\* Faulty variant: s.lvl = lvl is left out.
insertKeepsLevel(s, user, score, draws, n) ==
    LET x      == Entry(user, score)
        found  == search(s, x)
        l      == randomLevel(draws)
        update == [i \in Levels |-> IF l > s.lvl /\ i >= s.lvl /\ i < l
                                    THEN head ELSE found[i]]
        fresh  == [s.next EXCEPT ![n] = NilNext]
    IN  [s EXCEPT !.e = [s.e EXCEPT ![n] = x],
                  !.next = splice(fresh, update, n, 0, l),
                  !.byUser = put(s.byUser, user, n)]

\* Lines 71-92, with n the cell the allocator returns for &node{e: e} and
\* draws the values the generator returns.
insert(s, user, score, draws, n) ==
    LET x      == Entry(user, score)
        found  == search(s, x)
        l      == randomLevel(draws)
        update == [i \in Levels |-> IF l > s.lvl /\ i >= s.lvl /\ i < l
                                    THEN head ELSE found[i]]
        fresh  == [s.next EXCEPT ![n] = NilNext]
    IN  [s EXCEPT !.e = [s.e EXCEPT ![n] = x],
                  !.next = splice(fresh, update, n, 0, l),
                  !.lvl = IF l > s.lvl THEN l ELSE s.lvl,
                  !.byUser = put(s.byUser, user, n)]

\* ----------------------------------------------------------------- Remove

\* Faulty variant: for a user the index does not hold, the first-ranked entry goes.
RemoveAbsentDropsFirst(s, user) ==
    IF user \in DOMAIN s.byUser
    THEN removeLocked(s, user, s.e[s.byUser[user]])
    ELSE IF s.next[head][0] # Nil
         THEN removeLocked(s, s.e[s.next[head][0]].User, s.e[s.next[head][0]])
         ELSE s

\* Lines 122-124.
Remove(s, user) ==
    IF user \in DOMAIN s.byUser
    THEN removeLocked(s, user, s.e[s.byUser[user]])
    ELSE s

\* ------------------------------------------------------------------- TopN

\* for cur != nil && len(out) < n { out = append(out, cur.e); cur = cur.next[0] }
RECURSIVE collect(_, _, _, _)
collect(s, cur, out, n) ==
    IF cur # Nil /\ Len(out) < n
    THEN collect(s, s.next[cur][0], Append(out, s.e[cur]), n)
    ELSE out

\* Faulty variant: the traversal stops one entry early.
TopNOneShort(s, n) ==
    IF n <= 0
    THEN <<>>
    ELSE collect(s, s.next[head][0], <<>>, n - 1)

\* Faulty variant: the traversal follows the chain of the highest level.
RECURSIVE collectAt(_, _, _, _, _)
collectAt(s, i, cur, out, n) ==
    IF cur # Nil /\ Len(out) < n
    THEN collectAt(s, i, s.next[cur][i], Append(out, s.e[cur]), n)
    ELSE out

TopNFromTopLevel(s, n) ==
    IF n <= 0
    THEN <<>>
    ELSE collectAt(s, s.lvl - 1, s.next[head][s.lvl - 1], <<>>, n)

\* Faulty variant: the traversal runs to the end of the chain whatever n is.
TopNIgnoresCount(s, n) ==
    IF n <= 0
    THEN <<>>
    ELSE collect(s, s.next[head][0], <<>>, MaxNodes + 1)

TopN(s, n) ==
    IF n <= 0
    THEN <<>>
    ELSE collect(s, s.next[head][0], <<>>, n)

\* -------------------------------------------------------------------- Get

\* Faulty variant: a miss reports found.
GetAbsentFound(s, user) ==
    IF user \in DOMAIN s.byUser
    THEN <<s.e[s.byUser[user]], TRUE>>
    ELSE <<ZeroEntry, TRUE>>

Get(s, user) ==
    IF user \in DOMAIN s.byUser
    THEN <<s.e[s.byUser[user]], TRUE>>
    ELSE <<ZeroEntry, FALSE>>

\* ------------------------------------------------------------- allocation

\* What a set of cells points to, at any level.
Succs(s, R) == {s.next[n][i] : n \in R, i \in Levels} \ {Nil}

RECURSIVE closure(_, _)
closure(s, R) ==
    IF Succs(s, R) \subseteq R
    THEN R
    ELSE closure(s, R \cup Succs(s, R))

\* The cells the program can still reach: from the head and from the index
\* (Update's old and Remove's n are dead once removeLocked has returned).
Live(s) ==
    closure(s, {head} \cup {s.byUser[u] : u \in DOMAIN s.byUser})

\* The garbage collector: a cell nothing reaches is zeroed memory again.
Collect(s) ==
    [s EXCEPT !.e = [n \in Nodes |-> IF n \in Live(s) THEN s.e[n] ELSE ZeroEntry],
              !.next = [n \in Nodes |-> IF n \in Live(s) THEN s.next[n] ELSE NilNext]]

\* The cells the allocator can return.
Free(s) == NodeIds \ Live(s)

\* The allocator returns some free cell; which one is not the program's
\* choice, and the program never reads an address, so every rule gives the
\* same behaviours up to the naming of cells.  This one keeps one name per
\* shape: the cell numbered after the user when it is free, else the lowest.
NewNode(s, user) ==
    IF user + 1 \in Free(s)
    THEN user + 1
    ELSE CHOOSE n \in Free(s) : \A m \in Free(s) : n <= m

\* One whole call of Update on s: lines 67-70, then lines 71-92.
Update(s, user, score, draws) ==
    Collect(insert(Collect(removeOld(s, user)), user, score, draws,
                   NewNode(Collect(removeOld(s, user)), user)))

\* ---------------------------------------------------------------- RWMutex

\* sync.RWMutex: Lock is granted when nobody holds the mutex, RLock when no
\* writer holds it.
\* Faulty variant: Lock waits for the readers only.
canLockWhenNoReader(m) == m.r = {}

\* Faulty variant: Lock waits for the writer only.
canLockWhenNoWriter(m) == m.w = {}

\* Faulty variant: Lock never waits.
canLockAlways(m) == TRUE

canLock(m) == m.w = {} /\ m.r = {}

\* Faulty variant: RLock never waits.
canRLockAlways(m) == TRUE

\* Faulty variant: RLock waits for the other readers too.
canRLockAlone(m) == m.w = {} /\ m.r = {}

canRLock(m) == m.w = {}

\* ------------------------------------------------------------------ calls

\* A call in progress: its arguments, and the values it has read from s.rng
\* so far.
NoCall == [op |-> "none", user |-> EmptyUser, score |-> 0, n |-> 0, draws |-> <<>>]

Init ==
    /\ e = NewSkipList.e
    /\ next = NewSkipList.next
    /\ lvl = NewSkipList.lvl
    /\ byUser = NewSkipList.byUser
    /\ mu = [w |-> {}, r |-> {}]
    /\ pc = [p \in Procs |-> "idle"]
    /\ call = [p \in Procs |-> NoCall]
    /\ res = [p \in Procs |-> <<>>]
    /\ last = <<>>

\* The structure after a step of a writer, garbage collected.
Install(s) ==
    \E t \in {s} :
        \E c \in {Collect(t)} :
            /\ e' = c.e
            /\ next' = c.next
            /\ lvl' = t.lvl
            /\ byUser' = t.byUser

structure == <<e, next, lvl, byUser>>

\* ----------------------------------------------------------------- Update

\* A goroutine calls s.Update and reaches s.mu.Lock().
UpdateCall(p) ==
    /\ pc[p] = "idle"
    /\ pc' = [pc EXCEPT ![p] = "upd_lock"]
    /\ UNCHANGED <<structure, mu, call, res, last>>

\* Faulty variant: Update takes the mutex in shared mode.
UpdateLockShared(p, u, sc) ==
    /\ pc[p] = "upd_lock"
    /\ canRLock(mu)
    /\ mu' = [mu EXCEPT !.r = @ \cup {p}]
    /\ pc' = [pc EXCEPT ![p] = "upd_old"]
    /\ call' = [call EXCEPT ![p] = [op |-> "Update", user |-> u, score |-> sc, n |-> 0, draws |-> <<>>]]
    /\ UNCHANGED <<structure, res, last>>

\* s.mu.Lock() returns; u and sc are the arguments of the call, which the
\* body reads from here on.
UpdateLock(p, u, sc) ==
    /\ pc[p] = "upd_lock"
    /\ canLock(mu)
    /\ mu' = [mu EXCEPT !.w = @ \cup {p}]
    /\ pc' = [pc EXCEPT ![p] = "upd_old"]
    /\ call' = [call EXCEPT ![p] = [op |-> "Update", user |-> u, score |-> sc, n |-> 0, draws |-> <<>>]]
    /\ UNCHANGED <<structure, res, last>>

\* Faulty variant: the old node is kept and its entry overwritten.
UpdateOldInPlace(p) ==
    /\ pc[p] = "upd_old"
    /\ IF call[p].user \in DOMAIN byUser
       THEN e' = [e EXCEPT ![byUser[call[p].user]] =
                                Entry(call[p].user, call[p].score)]
       ELSE e' = e
    /\ pc' = [pc EXCEPT ![p] = "upd_ins"]
    /\ UNCHANGED <<next, lvl, byUser, mu, call, res, last>>

\* Lines 67-70: the old node, if any, is unlinked.
UpdateOld(p) ==
    /\ pc[p] = "upd_old"
    /\ Install(removeOld(SL, call[p].user))
    /\ pc' = [pc EXCEPT ![p] = "upd_ins"]
    /\ UNCHANGED <<mu, call, res, last>>

\* Lines 71-92: the search, the level draw and the splice of the new node.
\* randomLevel reads draws from s.rng; no other line of the file reads it.
UpdateInsWith(p, draws) ==
    /\ pc[p] = "upd_ins"
    /\ Free(SL) # {}
    /\ Install(insert(SL, call[p].user, call[p].score, draws,
                      NewNode(SL, call[p].user)))
    /\ call' = [call EXCEPT ![p].draws = draws]
    /\ pc' = [pc EXCEPT ![p] = "upd_unlock"]
    /\ UNCHANGED <<mu, res, last>>

\* The same with the generator's values left open.
UpdateIns(p) == \E draws \in CoinRuns : UpdateInsWith(p, draws)

\* Faulty variant: Update returns without the Unlock.
UpdateUnlockKeepsLock(p) ==
    /\ pc[p] = "upd_unlock"
    /\ pc' = [pc EXCEPT ![p] = "idle"]
    /\ call' = [call EXCEPT ![p] = NoCall]
    /\ last' = put(last, call[p].user, call[p].score)
    /\ UNCHANGED <<structure, mu, res>>

\* The deferred s.mu.Unlock(), and the return.
UpdateUnlock(p) ==
    /\ pc[p] = "upd_unlock"
    /\ mu' = [mu EXCEPT !.w = @ \ {p}]
    /\ pc' = [pc EXCEPT ![p] = "idle"]
    /\ call' = [call EXCEPT ![p] = NoCall]
    /\ last' = put(last, call[p].user, call[p].score)
    /\ UNCHANGED <<structure, res>>

\* ----------------------------------------------------------------- Remove

RemoveCall(p) ==
    /\ pc[p] = "idle"
    /\ pc' = [pc EXCEPT ![p] = "rem_lock"]
    /\ UNCHANGED <<structure, mu, call, res, last>>

RemoveLock(p, u) ==
    /\ pc[p] = "rem_lock"
    /\ canLock(mu)
    /\ mu' = [mu EXCEPT !.w = @ \cup {p}]
    /\ pc' = [pc EXCEPT ![p] = "rem_body"]
    /\ call' = [call EXCEPT ![p] = [op |-> "Remove", user |-> u, score |-> 0, n |-> 0, draws |-> <<>>]]
    /\ UNCHANGED <<structure, res, last>>

\* Faulty variant: the slices TopN returned share the entries of the nodes,
\* and Remove clears the entry of the node it unlinks.
RemoveBodyClearsHeld(p) ==
    /\ pc[p] = "rem_body"
    /\ Install(Remove(SL, call[p].user))
    /\ res' = [q \in DOMAIN res |->
                  IF pc[q] = "idle" /\ call[q].op = "TopN"
                  THEN [i \in 1..Len(res[q]) |->
                           IF res[q][i].User = call[p].user
                           THEN ZeroEntry
                           ELSE res[q][i]]
                  ELSE res[q]]
    /\ pc' = [pc EXCEPT ![p] = "rem_unlock"]
    /\ UNCHANGED <<mu, call, last>>

\* Lines 122-124.
RemoveBody(p) ==
    /\ pc[p] = "rem_body"
    /\ Install(Remove(SL, call[p].user))
    /\ pc' = [pc EXCEPT ![p] = "rem_unlock"]
    /\ UNCHANGED <<mu, call, res, last>>

RemoveUnlock(p) ==
    /\ pc[p] = "rem_unlock"
    /\ mu' = [mu EXCEPT !.w = @ \ {p}]
    /\ pc' = [pc EXCEPT ![p] = "idle"]
    /\ call' = [call EXCEPT ![p] = NoCall]
    /\ last' = delete(last, call[p].user)
    /\ UNCHANGED <<structure, res>>

\* ------------------------------------------------------------------- TopN

TopNCall(p) ==
    /\ pc[p] = "idle"
    /\ pc' = [pc EXCEPT ![p] = "topn_rlock"]
    /\ UNCHANGED <<structure, mu, call, res, last>>

TopNRLock(p, n) ==
    /\ pc[p] = "topn_rlock"
    /\ canRLock(mu)
    /\ mu' = [mu EXCEPT !.r = @ \cup {p}]
    /\ pc' = [pc EXCEPT ![p] = "topn_body"]
    /\ call' = [call EXCEPT ![p] = [op |-> "TopN", user |-> EmptyUser, score |-> 0, n |-> n, draws |-> <<>>]]
    /\ UNCHANGED <<structure, res, last>>

\* Faulty variant: the traversal unlinks the first-ranked entry.
TopNBodyConsumes(p) ==
    /\ pc[p] = "topn_body"
    /\ res' = [res EXCEPT ![p] = TopN(SL, call[p].n)]
    /\ Install(IF next[head][0] # Nil
               THEN Remove(SL, e[next[head][0]].User)
               ELSE SL)
    /\ pc' = [pc EXCEPT ![p] = "topn_runlock"]
    /\ UNCHANGED <<mu, call, last>>

\* Lines 130-139.
TopNBody(p) ==
    /\ pc[p] = "topn_body"
    /\ res' = [res EXCEPT ![p] = TopN(SL, call[p].n)]
    /\ pc' = [pc EXCEPT ![p] = "topn_runlock"]
    /\ UNCHANGED <<structure, mu, call, last>>

\* The deferred s.mu.RUnlock(), and the return.
TopNRUnlock(p) ==
    /\ pc[p] = "topn_runlock"
    /\ mu' = [mu EXCEPT !.r = @ \ {p}]
    /\ pc' = [pc EXCEPT ![p] = "idle"]
    /\ call' = [call EXCEPT ![p] = NoCall]
    /\ res' = [res EXCEPT ![p] = <<>>]
    /\ UNCHANGED <<structure, last>>

\* -------------------------------------------------------------------- Get

GetCall(p) ==
    /\ pc[p] = "idle"
    /\ pc' = [pc EXCEPT ![p] = "get_rlock"]
    /\ UNCHANGED <<structure, mu, call, res, last>>

GetRLock(p, u) ==
    /\ pc[p] = "get_rlock"
    /\ canRLock(mu)
    /\ mu' = [mu EXCEPT !.r = @ \cup {p}]
    /\ pc' = [pc EXCEPT ![p] = "get_body"]
    /\ call' = [call EXCEPT ![p] = [op |-> "Get", user |-> u, score |-> 0, n |-> 0, draws |-> <<>>]]
    /\ UNCHANGED <<structure, res, last>>

\* Lines 145-148.
GetBody(p) ==
    /\ pc[p] = "get_body"
    /\ res' = [res EXCEPT ![p] = Get(SL, call[p].user)]
    /\ pc' = [pc EXCEPT ![p] = "get_runlock"]
    /\ UNCHANGED <<structure, mu, call, last>>

GetRUnlock(p) ==
    /\ pc[p] = "get_runlock"
    /\ mu' = [mu EXCEPT !.r = @ \ {p}]
    /\ pc' = [pc EXCEPT ![p] = "idle"]
    /\ call' = [call EXCEPT ![p] = NoCall]
    /\ res' = [res EXCEPT ![p] = <<>>]
    /\ UNCHANGED <<structure, last>>

\* ---------------------------------------------------------- specification

Next ==
    \E p \in Procs :
        \/ UpdateCall(p)
        \/ \E u \in Users, sc \in Scores : UpdateLock(p, u, sc)
        \/ UpdateOld(p)
        \/ UpdateIns(p)
        \/ UpdateUnlock(p)
        \/ RemoveCall(p)
        \/ \E u \in Users : RemoveLock(p, u)
        \/ RemoveBody(p)
        \/ RemoveUnlock(p)
        \/ TopNCall(p)
        \/ \E n \in Counts : TopNRLock(p, n)
        \/ TopNBody(p)
        \/ TopNRUnlock(p)
        \/ GetCall(p)
        \/ \E u \in Users : GetRLock(p, u)
        \/ GetBody(p)
        \/ GetRUnlock(p)

Spec == Init /\ [][Next]_vars

\* ---------------------------------------------------------------- fairness

\* The steps of a goroutine between the return of Lock or RLock and its own
\* return.
Inside(p) ==
    \/ UpdateOld(p)
    \/ UpdateIns(p)
    \/ UpdateUnlock(p)
    \/ RemoveBody(p)
    \/ RemoveUnlock(p)
    \/ TopNBody(p)
    \/ TopNRUnlock(p)
    \/ GetBody(p)
    \/ GetRUnlock(p)

\* The return of s.mu.Lock() or s.mu.RLock() to a goroutine that waits in it.
Acquire(p) ==
    \/ \E u \in Users, sc \in Scores : UpdateLock(p, u, sc)
    \/ \E u \in Users : RemoveLock(p, u)
    \/ \E n \in Counts : TopNRLock(p, n)
    \/ \E u \in Users : GetRLock(p, u)

\* A goroutine inside a critical section keeps running: the scheduler does
\* not leave a runnable goroutine aside for ever, and the code between Lock
\* and Unlock waits for nothing.  sync.RWMutex grants fairly: a goroutine
\* blocked in Lock or RLock while the mutex becomes free again and again is
\* let in (a blocked Lock holds back later RLocks, and an Unlock wakes the
\* readers that wait).
FairSpec == Spec /\ \A p \in Procs : WF_vars(Inside(p)) /\ SF_vars(Acquire(p))

\* --------------------------------------------------- results that are kept

\* The deferred s.mu.RUnlock() and the return of TopN, to a caller that keeps
\* the slice it got (and the model the call it answers) until its next call.
TopNReturn(p) ==
    /\ pc[p] = "topn_runlock"
    /\ mu' = [mu EXCEPT !.r = @ \ {p}]
    /\ pc' = [pc EXCEPT ![p] = "idle"]
    /\ UNCHANGED <<structure, call, res, last>>

\* The same for Get and the Entry it returned.
GetReturn(p) ==
    /\ pc[p] = "get_runlock"
    /\ mu' = [mu EXCEPT !.r = @ \ {p}]
    /\ pc' = [pc EXCEPT ![p] = "idle"]
    /\ UNCHANGED <<structure, call, res, last>>

\* The users of the calls of this scenario.
SnapUsers == {1, 2}

\* Goroutine 1 reads and keeps what it read; goroutine 2 calls Update and
\* Remove.
NextSnapshot ==
    \/ TopNCall(1)
    \/ \E n \in Counts : TopNRLock(1, n)
    \/ TopNBody(1)
    \/ TopNReturn(1)
    \/ GetCall(1)
    \/ \E u \in SnapUsers : GetRLock(1, u)
    \/ GetBody(1)
    \/ GetReturn(1)
    \/ UpdateCall(2)
    \/ \E u \in SnapUsers, sc \in Scores : UpdateLock(2, u, sc)
    \/ UpdateOld(2)
    \/ UpdateIns(2)
    \/ UpdateUnlock(2)
    \/ RemoveCall(2)
    \/ \E u \in SnapUsers : RemoveLock(2, u)
    \/ RemoveBody(2)
    \/ RemoveUnlock(2)

SnapshotSpec == Init /\ [][NextSnapshot]_vars

\* ------------------------------------------------------------ tall towers

\* One goroutine calls Update and Remove, and the generator gives levels up
\* to maxLevel.
NextTall ==
    \/ UpdateCall(1)
    \/ \E u \in Users, sc \in Scores : UpdateLock(1, u, sc)
    \/ UpdateOld(1)
    \/ \E draws \in TallRuns : UpdateInsWith(1, draws)
    \/ UpdateUnlock(1)
    \/ RemoveCall(1)
    \/ \E u \in Users : RemoveLock(1, u)
    \/ RemoveBody(1)
    \/ RemoveUnlock(1)

TallSpec == Init /\ [][NextTall]_vars

\* One goroutine calls Update and Remove one after the other.
NextSerial ==
    \/ UpdateCall(1)
    \/ \E u \in Users, sc \in Scores : UpdateLock(1, u, sc)
    \/ UpdateOld(1)
    \/ UpdateIns(1)
    \/ UpdateUnlock(1)
    \/ RemoveCall(1)
    \/ \E u \in Users : RemoveLock(1, u)
    \/ RemoveBody(1)
    \/ RemoveUnlock(1)

SerialSpec == Init /\ [][NextSerial]_vars

\* ------------------------------------------------------- the level drawn

\* Update(u, sc) holds the lock on a new board and is at line 71.
InitLevel ==
    /\ e = NewSkipList.e
    /\ next = NewSkipList.next
    /\ lvl = NewSkipList.lvl
    /\ byUser = NewSkipList.byUser
    /\ mu = [w |-> {1}, r |-> {}]
    /\ pc = [p \in Procs |-> IF p = 1 THEN "upd_ins" ELSE "idle"]
    /\ \E u \in Users, sc \in Scores :
          call = [p \in Procs |->
                     IF p = 1
                     THEN [op |-> "Update", user |-> u, score |-> sc, n |-> 0, draws |-> <<>>]
                     ELSE NoCall]
    /\ res = [p \in Procs |-> <<>>]
    /\ last = <<>>

\* The call runs to its return, the generator giving any stream of FlipRuns.
NextLevel ==
    \/ \E draws \in FlipRuns : UpdateInsWith(1, draws)
    \/ UpdateUnlock(1)

LevelSpec == InitLevel /\ [][NextLevel]_vars

\* ------------------------------------------- two mutations of the same user

\* The user both goroutines name.
TheUser == 1

\* The boards the two calls can find, each with the mapping it shows: new,
\* or holding TheUser with a score no call of this scenario submits, another
\* user, or both.
StartBoards ==
    {[s |-> NewSkipList, m |-> <<>>]}
        \cup {[s |-> Update(NewSkipList, TheUser, 7, d), m |-> put(<<>>, TheUser, 7)] :
                  d \in CoinRuns}
        \cup {[s |-> Update(NewSkipList, 2, 0, d), m |-> put(<<>>, 2, 0)] :
                  d \in CoinRuns}
        \cup UNION {{[s |-> Update(s1, 2, 0, d2),
                      m |-> put(put(<<>>, TheUser, 7), 2, 0)] : d2 \in CoinRuns} :
                        s1 \in {Update(NewSkipList, TheUser, 7, d1) : d1 \in CoinRuns}}

\* Goroutine 1 has called Update(TheUser, _) and goroutine 2 Update(TheUser, _)
\* or Remove(TheUser); both stand at s.mu.Lock().
InitSame ==
    /\ \E b \in StartBoards :
           /\ e = b.s.e
           /\ next = b.s.next
           /\ lvl = b.s.lvl
           /\ byUser = b.s.byUser
           /\ last = b.m
    /\ mu = [w |-> {}, r |-> {}]
    /\ pc \in {[p \in Procs |-> IF p = 1 THEN "upd_lock" ELSE second] :
                   second \in {"upd_lock", "rem_lock"}}
    /\ call = [p \in Procs |-> NoCall]
    /\ res = [p \in Procs |-> <<>>]

\* Each of the two calls runs once.
NextSame ==
    \E p \in Procs :
        \/ \E sc \in Scores : UpdateLock(p, TheUser, sc)
        \/ UpdateOld(p)
        \/ UpdateIns(p)
        \/ UpdateUnlock(p)
        \/ RemoveLock(p, TheUser)
        \/ RemoveBody(p)
        \/ RemoveUnlock(p)

SameUserSpec == InitSame /\ [][NextSame]_vars

\* ------------------------------------------------- scores at the extremes

\* One goroutine calls Update, again and again, with scores from the ends
\* and the middle of the range of the score type.
NextExtremes ==
    \/ UpdateCall(1)
    \/ \E u \in Users, sc \in ExtremeScores : UpdateLock(1, u, sc)
    \/ UpdateOld(1)
    \/ UpdateIns(1)
    \/ UpdateUnlock(1)

ExtremesSpec == Init /\ [][NextExtremes]_vars

\* ------------------------------------------------- concurrent writers only

\* The scenario of spec 8: on a new board, every writer has called Update and
\* stands at s.mu.Lock(); each calls once, for a user no other writer names.
Writers == 1..NumWriters

WriterUsers == 0..(NumWriters - 1)

InitWriters ==
    /\ e = NewSkipList.e
    /\ next = NewSkipList.next
    /\ lvl = NewSkipList.lvl
    /\ byUser = NewSkipList.byUser
    /\ mu = [w |-> {}, r |-> {}]
    /\ pc = [p \in Writers |-> "upd_lock"]
    /\ call = [p \in Writers |-> NoCall]
    /\ res = [p \in Writers |-> <<>>]
    /\ last = <<>>

\* The users the writers that got the lock so far have named.
Taken == {call[q].user : q \in {w \in Writers : call[w].op = "Update"}} \cup DOMAIN last

NextWriters ==
    \E p \in Writers :
        \/ \E u \in WriterUsers \ Taken, sc \in Scores : UpdateLock(p, u, sc)
        \/ UpdateOld(p)
        \/ UpdateIns(p)
        \/ UpdateUnlock(p)

WritersSpec == InitWriters /\ [][NextWriters]_vars

\* ------------------------------------------------------ reference ranking

\* The order of spec 4.2: score descending, then user id ascending.
Before(a, b) == a.Score > b.Score \/ (a.Score = b.Score /\ a.User < b.User)

Ranked(out) == \A i, j \in 1..Len(out) : i < j => Before(out[i], out[j])

DistinctUsers(out) == \A i, j \in 1..Len(out) : i # j => out[i].User # out[j].User

UsersOf(out) == {out[i].User : i \in 1..Len(out)}

RECURSIVE SortEntries(_)
SortEntries(S) ==
    IF S = {}
    THEN <<>>
    ELSE LET m == CHOOSE x \in S : \A y \in S \ {x} : Before(x, y)
         IN  <<m>> \o SortEntries(S \ {m})

\* The reference list of a user -> score mapping.
RefList(m) == SortEntries({Entry(u, m[u]) : u \in DOMAIN m})

Prefix(q, n) == SubSeq(q, 1, IF n < Len(q) THEN n ELSE Len(q))

RefTopN(m, n) == IF n <= 0 THEN <<>> ELSE Prefix(RefList(m), n)

RefGet(m, u) == IF u \in DOMAIN m THEN <<Entry(u, m[u]), TRUE>> ELSE <<ZeroEntry, FALSE>>

\* The values of n the formulas try: below, at and above every board size.
TopArgs == (-1)..(MaxNodes + 1)

\* An n no board of the model is longer than.
All == MaxNodes + 1

\* What callers can observe of a board.
Obs(s) == [get |-> [v \in Users |-> Get(s, v)], top |-> [n \in TopArgs |-> TopN(s, n)]]

\* No call is in progress.
Quiet == \A p \in Procs : pc[p] = "idle"

\* ------------------------------------------------------------------ claims

\* C1: whenever no Update or Remove is inside its critical section, TopN(k),
\* for every k, is sorted by descending score, ties by ascending user id, and
\* holds no user twice.
C1_TopNSorted ==
    mu.w = {} =>
        \A k \in TopArgs : Ranked(TopN(SL, k)) /\ DistinctUsers(TopN(SL, k))

\* A full board with a tie and a score difference, two levels high.
C1_Witness ==
    /\ mu.w = {}
    /\ lvl = 2
    /\ Len(TopN(SL, 3)) = 3
    /\ TopN(SL, 3)[1].Score > TopN(SL, 3)[2].Score
    /\ TopN(SL, 3)[2].Score = TopN(SL, 3)[3].Score

\* The scenario of spec 8, with a = 1, b = 2, c = 3, whatever the levels drawn.
C2_Scenario ==
    \A d1, d2, d3, d4 \in CoinRuns :
        \A s1 \in {Update(NewSkipList, 1, 10, d1)} :
        \A s2 \in {Update(s1, 2, 20, d2)} :
        \A s3 \in {Update(s2, 3, 15, d3)} :
            /\ TopN(s3, 3) = <<Entry(2, 20), Entry(3, 15), Entry(1, 10)>>
            /\ TopN(Update(s3, 1, 25, d4), 1) = <<Entry(1, 25)>>

\* C2: after any completed sequence of Update and Remove calls, TopN(n) for
\* n > 0 is the first min(n, size) elements of the reference list: the pairs
\* (user, score of the user's last Update) of the users whose last mutation
\* was an Update, by score descending then user id ascending.
C2_TopNIsReference ==
    /\ mu.w = {} => \A n \in 1..All : TopN(SL, n) = Prefix(RefList(last), n)
    /\ C2_Scenario

\* Two users on a board of two levels, and n = 1 cuts the list.
C2_Witness ==
    /\ Quiet
    /\ DOMAIN last = {0, 2}
    /\ last[0] > last[2]
    /\ TopN(SL, 1) = <<Entry(0, 0)>>
    /\ lvl = 2

\* C3: when Update(u, s) has run, Get(u) is (Entry{u, s}, true): the score is
\* the s of this call, whatever u's score was before.
C3_GetAfterUpdate ==
    \A p \in Procs :
        pc[p] = "upd_unlock" =>
            Get(SL, call[p].user) = <<Entry(call[p].user, call[p].score), TRUE>>

\* An Update has run on a user that was present with another, non-zero score.
C3_Witness ==
    \E p \in Procs :
        /\ pc[p] = "upd_unlock"
        /\ call[p].user \in DOMAIN last
        /\ last[call[p].user] = -5
        /\ call[p].score = 0

\* C4: on every board the program reaches, Update(u, s) twice in a row leaves
\* the same Get(v) for every v and the same TopN(n) for every n as once; and a
\* call Update(u, s) on a board where u's last Update was already (u, s)
\* leaves what the board showed before it.
C4_UpdateIdempotent ==
    /\ Quiet =>
          \A u \in Users, sc \in Scores, d1, d2 \in CoinRuns :
              \A s1 \in {Update(SL, u, sc, d1)} :
                  Obs(Update(s1, u, sc, d2)) = Obs(s1)
    /\ \A p \in Procs :
          (/\ pc[p] = "upd_unlock"
           /\ call[p].user \in DOMAIN last
           /\ last[call[p].user] = call[p].score) =>
              /\ \A v \in Users : Get(SL, v) = RefGet(last, v)
              /\ \A n \in TopArgs : TopN(SL, n) = RefTopN(last, n)

\* A repeated Update(u, s) has run on a board that holds other users too.
C4_Witness ==
    \E p \in Procs :
        /\ pc[p] = "upd_unlock"
        /\ call[p].user \in DOMAIN last
        /\ last[call[p].user] = call[p].score
        /\ Cardinality(DOMAIN last) = 3

\* C5: the step of Remove(u) on a board that holds u leaves Get(u) not found,
\* u in no TopN(n), and exactly one entry less in the chain and in the index.
C5_RemovePresent ==
    [][\A p \in Procs :
          (/\ pc[p] = "rem_body"
           /\ pc'[p] = "rem_unlock"
           /\ call[p].user \in DOMAIN byUser) =>
              /\ Get(SL', call[p].user)[2] = FALSE
              /\ \A n \in TopArgs : call[p].user \notin UsersOf(TopN(SL', n))
              /\ Len(TopN(SL', All)) = Len(TopN(SL, All)) - 1
              /\ Cardinality(DOMAIN byUser') = Cardinality(DOMAIN byUser) - 1]_vars

\* A Remove has run on a user that was present, and two users remain.
C5_Witness ==
    \E p \in Procs :
        /\ pc[p] = "rem_unlock"
        /\ call[p].user \in DOMAIN last
        /\ Cardinality(DOMAIN byUser) = 2

\* C6: the step of Remove(u) on a board that does not hold u changes no
\* chain, no entry, not the index and not the max level.
C6_RemoveAbsentNoOp ==
    [][\A p \in Procs :
          (/\ pc[p] = "rem_body"
           /\ pc'[p] = "rem_unlock"
           /\ call[p].user \notin DOMAIN byUser) =>
              UNCHANGED <<e, next, lvl, byUser>>]_vars

\* A Remove has run for an absent user on a board of two levels.
C6_Witness ==
    \E p \in Procs :
        /\ pc[p] = "rem_unlock"
        /\ call[p].user \notin DOMAIN last
        /\ DOMAIN byUser # {}
        /\ lvl = 2

\* ------------------------------------------------- structural invariants

\* The nodes after the head at level i, in chain order; fuel bounds the walk.
RECURSIVE chainFrom(_, _, _, _)
chainFrom(s, cur, i, fuel) ==
    IF cur = Nil \/ fuel = 0
    THEN <<>>
    ELSE <<cur>> \o chainFrom(s, s.next[cur][i], i, fuel - 1)

Chain(s, i) == chainFrom(s, s.next[head][i], i, MaxNodes + 1)

NodesOf(c) == {c[j] : j \in 1..Len(c)}

\* A chain that ends, strictly ordered by the order of spec 4.2.
OrderedChain(s, i) ==
    /\ Len(Chain(s, i)) <= MaxNodes
    /\ \A j, k \in 1..Len(Chain(s, i)) :
           j < k => Before(s.e[Chain(s, i)[j]], s.e[Chain(s, i)[k]])

\* Invariant 1 of spec 3.
OrderInv(s) ==
    /\ OrderedChain(s, 0)
    /\ \A j, k \in 1..Len(Chain(s, 0)) :
           j # k => s.e[Chain(s, 0)[j]].User # s.e[Chain(s, 0)[k]].User

\* Invariant 2 of spec 3.
TowerInv(s) ==
    \A i \in Levels \ {0} :
        /\ NodesOf(Chain(s, i)) \subseteq NodesOf(Chain(s, i - 1))
        /\ OrderedChain(s, i)

\* Invariant 3 of spec 3.
IndexInv(s) ==
    /\ {s.byUser[u] : u \in DOMAIN s.byUser} = NodesOf(Chain(s, 0))
    /\ \A u \in DOMAIN s.byUser : s.e[s.byUser[u]].User = u

\* Invariant 4 of spec 3.
LevelInv(s) ==
    /\ s.lvl \in 1..maxLevel
    /\ \A i \in Levels : i >= s.lvl => s.next[head][i] = Nil
    /\ s.lvl > 1 => s.next[head][s.lvl - 1] # Nil

\* ------------------------------------------------------ critical sections

\* Between the return of Lock and the deferred Unlock.
InWriter(p) == pc[p] \in {"upd_old", "upd_ins", "upd_unlock", "rem_body", "rem_unlock"}

\* Between the return of RLock and the deferred RUnlock.
InReader(p) == pc[p] \in {"topn_body", "topn_runlock", "get_body", "get_runlock"}

\* How often user u occurs in a TopN result.
Occurrences(out, u) == Cardinality({i \in 1..Len(out) : out[i].User = u})

\* C7: when M writers, each calling Update once for M pairwise distinct
\* users on a new board, have all returned, TopN(M) holds exactly M entries,
\* one per writer's user and no user twice, each with the score submitted.
C7_ConcurrentWriters ==
    (\A p \in Writers : pc[p] = "idle") =>
        /\ Cardinality(DOMAIN last) = NumWriters
        /\ Len(TopN(SL, NumWriters)) = NumWriters
        /\ DistinctUsers(TopN(SL, NumWriters))
        /\ UsersOf(TopN(SL, NumWriters)) = DOMAIN last
        /\ \A i \in 1..Len(TopN(SL, NumWriters)) :
               TopN(SL, NumWriters)[i].Score = last[TopN(SL, NumWriters)[i].User]

\* All writers have returned, and the board grew a second level.
C7_Witness ==
    /\ \A p \in Writers : pc[p] = "idle"
    /\ Len(TopN(SL, NumWriters)) = NumWriters
    /\ lvl = 2

\* C8: the value a TopN or Get is about to return is the value of that call
\* on the mapping the mutations that have returned so far leave, taken in the
\* order of their returns (a total order inside their real-time order; a
\* mutation still in progress comes after the read); and while a reader is
\* inside its critical section the four invariants of spec 3 hold.
C8_Linearizable ==
    \A p \in Procs :
        /\ pc[p] = "topn_runlock" => res[p] = RefTopN(last, call[p].n)
        /\ pc[p] = "get_runlock" => res[p] = RefGet(last, call[p].user)
        /\ InReader(p) =>
              OrderInv(SL) /\ TowerInv(SL) /\ IndexInv(SL) /\ LevelInv(SL)

\* A TopN holds a result of three entries while the other goroutine has
\* called Update and waits for the lock.
C8_Witness ==
    /\ pc[1] = "topn_runlock"
    /\ Len(res[1]) = 3
    /\ lvl = 2
    /\ pc[2] = "upd_lock"

\* C9: while an Update of a user that was present is between its Lock and its
\* Unlock, no TopN or Get is inside its critical section; a Get about to
\* return for a user the returned mutations left present has found it, and a
\* TopN(n) about to return, with n at least the board size, holds each such
\* user exactly once.
C9_UpdateAtomic ==
    /\ \A q \in Procs :
          (pc[q] \in {"upd_old", "upd_ins", "upd_unlock"} /\ call[q].user \in DOMAIN last) =>
              \A p \in Procs \ {q} : ~InReader(p)
    /\ \A p \in Procs :
          /\ (pc[p] = "get_runlock" /\ call[p].user \in DOMAIN last) => res[p][2] = TRUE
          /\ (pc[p] = "topn_runlock" /\ call[p].n >= Cardinality(DOMAIN last)) =>
                \A u \in DOMAIN last : Occurrences(res[p], u) = 1

\* An Update of a present user has unlinked the old node and not yet linked
\* the new one, while the other goroutine has called Get and waits.
C9_Witness ==
    \E q \in Procs, p \in Procs :
        /\ pc[q] = "upd_ins"
        /\ call[q].user \in DOMAIN last
        /\ call[q].user \notin DOMAIN byUser
        /\ pc[p] = "get_rlock"

\* C10: a call that is between Lock and Unlock holds the mutex as a writer,
\* at most one Update or Remove is there at a time, and while one is, no
\* other Update, Remove, TopN or Get is inside its own critical section.
C10_WriterExclusive ==
    \A p \in Procs :
        InWriter(p) =>
            /\ mu.w = {p}
            /\ mu.r = {}
            /\ \A q \in Procs \ {p} : ~InWriter(q) /\ ~InReader(q)

\* A Remove is inside its critical section while the other goroutine has
\* called TopN and waits.
C10_Witness ==
    \E p \in Procs, q \in Procs :
        /\ pc[p] = "rem_body"
        /\ pc[q] = "topn_rlock"

\* C11: a TopN or Get inside its critical section holds the mutex as a
\* reader, no Update or Remove is inside its own critical section meanwhile,
\* and a TopN or Get of another goroutine that waits at RLock is let in
\* beside it.
C11_ReadersShared ==
    \A p \in Procs :
        InReader(p) =>
            /\ p \in mu.r
            /\ mu.w = {}
            /\ \A q \in Procs : ~InWriter(q)
            /\ \A q \in Procs \ {p} :
                   pc[q] \in {"topn_rlock", "get_rlock"} => canRLock(mu)

\* A TopN and a Get are inside their critical sections at the same time, on
\* a board that holds entries.
C11_Witness ==
    /\ pc[1] = "topn_body"
    /\ pc[2] = "get_runlock"
    /\ mu.r = {1, 2}
    /\ DOMAIN byUser # {}

MinOf(a, b) == IF a < b THEN a ELSE b

C13_GetAbsentPresent ==
    /\ \A u \in Users : Get(NewSkipList, u) = <<Entry(EmptyUser, 0), FALSE>>
    /\ \A p \in Procs :
          pc[p] = "get_runlock" =>
              res[p] = IF call[p].user \in DOMAIN last
                       THEN <<Entry(call[p].user, last[call[p].user]), TRUE>>
                       ELSE <<Entry(EmptyUser, 0), FALSE>>
    /\ \A p \in Procs :
          pc[p] = "rem_unlock" =>
              Get(SL, call[p].user) = <<Entry(EmptyUser, 0), FALSE>>

\* One Get is about to return a miss for a user the board does not hold, the
\* other a hit with a non-zero score.
C13_Witness ==
    /\ pc[1] = "get_runlock"
    /\ call[1].user \notin DOMAIN last
    /\ res[1][2] = FALSE
    /\ pc[2] = "get_runlock"
    /\ res[2] = <<Entry(2, -5), TRUE>>

\* Where user u stands in a TopN result that holds it.
Pos(out, u) == CHOOSE i \in 1..Len(out) : out[i].User = u

\* The scenario of spec 8 with a = 1 and b = 2, in both orders, whatever the
\* levels drawn.
C14_Scenario ==
    \A d1, d2 \in CoinRuns :
        /\ \A s1 \in {Update(NewSkipList, 2, 10, d1)} :
               TopN(Update(s1, 1, 10, d2), 2) = <<Entry(1, 10), Entry(2, 10)>>
        /\ \A s1 \in {Update(NewSkipList, 1, 10, d1)} :
               TopN(Update(s1, 2, 10, d2), 2) = <<Entry(1, 10), Entry(2, 10)>>

\* C14: Update(b, 10) then Update(a, 10), and Update(a, 10) then
\* Update(b, 10), both give TopN(2) = [a:10, b:10]; and when any Update(u, s)
\* has run, u and every user v that was on the board before with the same
\* score s stand in TopN in ascending order of user id, whichever of the two
\* ids is the smaller.
C14_TieOrder ==
    /\ C14_Scenario
    /\ \A p \in Procs :
          pc[p] = "upd_unlock" =>
              \A v \in DOMAIN last \ {call[p].user} :
                  last[v] = call[p].score =>
                      (Pos(TopN(SL, All), call[p].user) < Pos(TopN(SL, All), v))
                          <=> (call[p].user < v)

\* Update(1, 0) has run on a board that held user 2 with score 0 and not
\* user 1: the later arrival stands first.
C14_Witness ==
    \E p \in Procs :
        /\ pc[p] = "upd_unlock"
        /\ call[p].user = 1
        /\ call[p].score = 0
        /\ DOMAIN last = {2}
        /\ last[2] = 0
        /\ TopN(SL, 2) = <<Entry(1, 0), Entry(2, 0)>>

\* C15: on a board that has seen only Update calls, each for a user no other
\* call names, and N of them have returned while none is inside its critical
\* section, TopN(N) holds exactly N entries, each for another user, and no
\* larger n gives more.
C15_DistinctUpdates ==
    mu.w = {} =>
        /\ Len(TopN(SL, Cardinality(DOMAIN last))) = Cardinality(DOMAIN last)
        /\ DistinctUsers(TopN(SL, Cardinality(DOMAIN last)))
        /\ Len(TopN(SL, All)) = Cardinality(DOMAIN last)

\* Two Updates have returned with equal scores, a third is still to come.
C15_Witness ==
    /\ mu.w = {}
    /\ Cardinality(DOMAIN last) = 2
    /\ \A u, v \in DOMAIN last : last[u] = last[v]
    /\ Len(TopN(SL, 2)) = 2
    /\ \E p \in Writers : pc[p] = "upd_lock"

\* The positions of a goroutine that has called TopN or Get and not returned.
ReaderPcs ==
    {"topn_rlock", "topn_body", "topn_runlock", "get_rlock", "get_body", "get_runlock"}

\* The step is one of a TopN or Get of p: its call, its RLock, its body or
\* its RUnlock and return.
ReaderStep(p) == pc'[p] # pc[p] /\ (pc[p] \in ReaderPcs \/ pc'[p] \in ReaderPcs)

\* The step is one of the body of an Update or Remove of p.
MutatorStep(p) == pc'[p] # pc[p] /\ pc[p] \in {"upd_old", "upd_ins", "rem_body"}

\* C16: every step of a TopN or Get leaves the entries, every chain, the
\* user index and the max level as they were; across every step that is not
\* of the body of an Update or Remove, TopN(n) is the same sequence for every
\* n; and two TopN(n) that are about to return at the same time hold the
\* same sequence.
C16_ReadOnly ==
    [][/\ \A p \in Procs : ReaderStep(p) => UNCHANGED <<e, next, lvl, byUser>>
       /\ (\A p \in Procs : ~MutatorStep(p)) =>
              \A n \in TopArgs : TopN(SL', n) = TopN(SL, n)
       /\ \A p, q \in Procs :
              (/\ pc[p] = "topn_runlock"
               /\ pc[q] = "topn_runlock"
               /\ call[p].n = call[q].n) => res[p] = res[q]]_vars

\* Two TopN(3) are about to return the same three entries of a board of two
\* levels.
C16_Witness ==
    /\ pc[1] = "topn_runlock"
    /\ pc[2] = "topn_runlock"
    /\ call[1].n = 3
    /\ call[2].n = 3
    /\ Len(res[1]) = 3
    /\ res[1] = res[2]
    /\ lvl = 2

\* On every pair of entries with scores of the score type, less is the order
\* of spec 4.2 on the scores as numbers.
C17_CompareExact ==
    \A a, b \in MinScore..MaxScore, u, v \in Users :
        less(Entry(u, a), Entry(v, b)) <=> Before(Entry(u, a), Entry(v, b))

\* C17: with scores from the whole range of the score type, the minimum and
\* the maximum included, an Update that has run left its entry with the
\* score submitted; whenever no Update is inside its critical section the
\* full TopN is the reference list of the scores as numbers, an entry with
\* the maximum score has only maximum scores before it and one with the
\* minimum score only minimum scores after it; and less never disagrees
\* with the numeric order.
C17_ExtremeScores ==
    /\ C17_CompareExact
    /\ pc[1] = "upd_unlock" =>
          Get(SL, call[1].user) = <<Entry(call[1].user, call[1].score), TRUE>>
    /\ mu.w = {} =>
          /\ TopN(SL, All) = RefList(last)
          /\ \A i, j \in 1..Len(TopN(SL, All)) :
                 /\ (j < i /\ TopN(SL, All)[i].Score = MaxScore) =>
                        TopN(SL, All)[j].Score = MaxScore
                 /\ (j > i /\ TopN(SL, All)[i].Score = MinScore) =>
                        TopN(SL, All)[j].Score = MinScore

\* The board holds the maximum, a negative value and the minimum, the
\* maximum first and the minimum last, on two levels.
C17_Witness ==
    /\ pc[1] = "idle"
    /\ Len(TopN(SL, 3)) = 3
    /\ TopN(SL, 3)[1].Score = MaxScore
    /\ TopN(SL, 3)[2].Score = -1
    /\ TopN(SL, 3)[3].Score = MinScore
    /\ lvl = 2

\* C18: while a caller keeps the sequence a TopN returned, or the Entry and
\* flag a Get returned, and makes no new call, no step of the program, of an
\* Update or Remove in particular, changes its length or any of its elements.
C18_SnapshotCopies ==
    [][\A p \in Procs :
          (pc[p] = "idle" /\ pc'[p] = "idle") =>
              /\ Len(res'[p]) = Len(res[p])
              /\ \A i \in 1..Len(res[p]) : res'[p][i] = res[p][i]]_vars

\* The caller still holds the two entries a TopN(3) returned, and since then
\* both users have been removed from the board.
C18_Witness ==
    /\ pc[1] = "idle"
    /\ call[1].op = "TopN"
    /\ Len(res[1]) = 2
    /\ DOMAIN byUser = {}
    /\ pc[2] = "idle"

\* What a goroutine that has called does next: every step but a call.
Proceed(p) == Acquire(p) \/ Inside(p)

\* Each level's chain from the head ends and passes no node twice.
FiniteChains ==
    \A i \in Levels :
        /\ Len(Chain(SL, i)) <= MaxNodes
        /\ \A j, k \in 1..Len(Chain(SL, i)) :
               j # k => Chain(SL, i)[j] # Chain(SL, i)[k]

\* No deadlock: while calls are in progress one of them can take its next
\* step; a goroutine that is in no call holds no lock.
NoDeadlock ==
    /\ (\E p \in Procs : pc[p] # "idle") =>
           \E p \in Procs : pc[p] # "idle" /\ ENABLED Proceed(p)
    /\ \A p \in Procs : pc[p] = "idle" => p \notin mu.w /\ p \notin mu.r

\* C19: under fair granting of the mutex, every Update, Remove, TopN and Get
\* that was called returns, having released the lock it took; no reachable
\* state is a deadlock; and each level's chain from the head is finite and
\* acyclic, so every search and traversal loop ends.
C19_Terminates ==
    /\ [](NoDeadlock /\ FiniteChains)
    /\ \A p \in Procs : (pc[p] # "idle") ~> (pc[p] = "idle")

\* An Update waits for the lock while a TopN holds it as a reader, on a
\* board of three entries and two levels.
C19_Witness ==
    /\ pc[1] = "upd_lock"
    /\ pc[2] = "topn_body"
    /\ mu.r = {2}
    /\ Cardinality(DOMAIN byUser) = 3
    /\ lvl = 2

\* C20: a goroutine at the level selection of Update, the one place that
\* reads s.rng, holds the mutex in exclusive mode, alone, and no other
\* goroutine is at a level selection; a call that has read values from the
\* generator is an Update still inside the critical section it read them in,
\* so no TopN, Get or Remove has read any.
C20_RngExclusive ==
    /\ \A p \in Procs :
          pc[p] = "upd_ins" =>
              /\ mu.w = {p}
              /\ mu.r = {}
              /\ \A q \in Procs \ {p} : pc[q] # "upd_ins"
    /\ \A p \in Procs :
          call[p].draws # <<>> =>
              /\ call[p].op = "Update"
              /\ pc[p] = "upd_unlock"
              /\ mu.w = {p}
              /\ mu.r = {}

\* An Update has read two values from the generator while the other
\* goroutine has called Update too and waits for the lock.
C20_Witness ==
    \E p, q \in Procs :
        /\ pc[p] = "upd_unlock"
        /\ Len(call[p].draws) = 2
        /\ pc[q] = "upd_lock"

\* less is a strict total order on the entries of S that differ in the user,
\* and leaves two entries of S unordered only when they are the same entry.
StrictTotalOn(S) ==
    /\ \A a \in S : ~less(a, a)
    /\ \A a, b \in S : a.User # b.User => (less(a, b) <=> ~less(b, a))
    /\ \A a, b \in S : (~less(a, b) /\ ~less(b, a)) => a = b
    /\ \A a, b, c \in S : (less(a, b) /\ less(b, c)) => less(a, c)

\* Every user with every score of the calls at the extremes.
ExtremeEntries == {Entry(u, s) : u \in Users, s \in ExtremeScores}

\* The entries less is applied to in a state: those of the nodes of the
\* board and the one of each Update in progress.
EntriesInPlay ==
    {e[byUser[u]] : u \in DOMAIN byUser}
        \cup {Entry(call[p].user, call[p].score) :
                  p \in {q \in DOMAIN call : call[q].op = "Update"}}

\* less on every user with every score of the calls at the extremes.
C21_OnExtremes == StrictTotalOn(ExtremeEntries)

\* C21: less is irreflexive and transitive, exactly one of less(a, b) and
\* less(b, a) holds for entries of different users, and neither holds only
\* for the same user with the same score: on every user with every score
\* from the ends and the middle of the range, and on the entries the board
\* and the calls in progress hold in every state.
C21_StrictTotalOrder ==
    /\ C21_OnExtremes
    /\ StrictTotalOn(EntriesInPlay)

\* An Update is about to search for the entry its user already has, on a
\* board that holds the maximum and the minimum score too.
C21_Witness ==
    /\ pc[1] = "upd_old"
    /\ call[1].user \in DOMAIN byUser
    /\ e[byUser[call[1].user]] = Entry(call[1].user, call[1].score)
    /\ \E u, v \in DOMAIN byUser :
           e[byUser[u]].Score = MaxScore /\ e[byUser[v]].Score = MinScore

\* No Update or Remove is between the return of Lock and the end of its body.
BodiesDone == \A p \in DOMAIN pc : pc[p] \notin {"upd_old", "upd_ins", "rem_body"}

\* C23: when every Update and Remove that took the lock has completed its
\* body, each node of the level-0 chain is what the index holds under the
\* node's own user id, each node the index holds is in the level-0 chain,
\* under the user it is indexed by, and Get(u) is found for exactly the
\* users of TopN(size).
C23_IndexBijection ==
    BodiesDone =>
        /\ \A n \in NodesOf(Chain(SL, 0)) :
               e[n].User \in DOMAIN byUser /\ byUser[e[n].User] = n
        /\ \A u \in DOMAIN byUser :
               byUser[u] \in NodesOf(Chain(SL, 0)) /\ e[byUser[u]].User = u
        /\ Len(Chain(SL, 0)) = Cardinality(DOMAIN byUser)
        /\ {u \in Users : Get(SL, u)[2]}
               = UsersOf(TopN(SL, Cardinality(DOMAIN byUser)))

\* A Remove of a present user has run and left two users, on two levels;
\* the other goroutine waits to update.
C23_Witness ==
    \E p, q \in Procs :
        /\ pc[p] = "rem_unlock"
        /\ call[p].user \in DOMAIN last
        /\ Cardinality(DOMAIN byUser) = 2
        /\ lvl = 2
        /\ pc[q] = "upd_lock"

\* Where node n stands in a chain that holds it.
PosIn(c, n) == CHOOSE i \in 1..Len(c) : c[i] = n

\* Chain a is chain b with some nodes left out.
IsSubseq(a, b) ==
    /\ NodesOf(a) \subseteq NodesOf(b)
    /\ \A j, k \in 1..Len(a) : j < k => PosIn(b, a[j]) < PosIn(b, a[k])

\* C24: when every Update and Remove that took the lock has completed its
\* body, a node in the chain of a level L > 0 is in the chain of every level
\* below L, the chain of level L is a subsequence of the chain of level
\* L - 1, and the chain of every level is strictly ordered by less.
C24_TowerInvariant ==
    BodiesDone =>
        \A L \in Levels :
            \A c \in {Chain(SL, L)} :
                /\ Len(c) <= MaxNodes
                /\ \A j, k \in 1..Len(c) : j < k => less(e[c[j]], e[c[k]])
                /\ L > 0 =>
                       /\ IsSubseq(c, Chain(SL, L - 1))
                       /\ \A K \in 0..(L - 1) : NodesOf(c) \subseteq NodesOf(Chain(SL, K))

\* Three nodes of levels maxLevel, 1 and 2, in this order: the chain of
\* level 1 passes over the middle node.
C24_Witness ==
    /\ pc[1] = "upd_unlock"
    /\ lvl = maxLevel
    /\ Len(Chain(SL, 0)) = 3
    /\ Len(Chain(SL, 1)) = 2
    /\ Chain(SL, 1) = <<Chain(SL, 0)[1], Chain(SL, 0)[3]>>
    /\ Chain(SL, maxLevel - 1) = <<Chain(SL, 0)[1]>>

\* C25: the step of Remove(u), or of the first half of an Update(u, s), on a
\* board that holds a node for u leaves that node in no chain from the head,
\* at none of the maxLevel levels, reachable from nothing, and u without an
\* index value; the node the second half of an Update links and indexes is
\* a cell that no node reachable before occupied, holding (u, s); and no
\* step changes the entry of a node that is reachable before and after it.
C25_OldNodeDropped ==
    [][/\ \A p \in DOMAIN pc :
              (/\ pc[p] \in {"upd_old", "rem_body"}
               /\ pc'[p] # pc[p]
               /\ call[p].user \in DOMAIN byUser) =>
                  /\ \A i \in Levels :
                         byUser[call[p].user] \notin NodesOf(Chain(SL', i))
                  /\ byUser[call[p].user] \notin Live(SL')
                  /\ call[p].user \notin DOMAIN byUser'
       /\ \A p \in DOMAIN pc :
              (pc[p] = "upd_ins" /\ pc'[p] = "upd_unlock") =>
                  /\ byUser'[call[p].user] \in Free(SL)
                  /\ e'[byUser'[call[p].user]] = Entry(call[p].user, call[p].score)
       /\ \A n \in NodeIds :
              (n \in Live(SL) /\ n \in Live(SL')) => e'[n] = e[n]]_vars

\* An Update has replaced the node of a user that had another score, on a
\* board of three users and maxLevel levels.
C25_Witness ==
    /\ pc[1] = "upd_unlock"
    /\ call[1].user \in DOMAIN last
    /\ last[call[1].user] # call[1].score
    /\ Cardinality(DOMAIN byUser) = 3
    /\ lvl = maxLevel

MaxOf(S) == CHOOSE x \in S : \A y \in S : y <= x

\* The level indexes at which the head has a successor.
HeadLevels == {i \in Levels : next[head][i] # Nil}

\* C26: when every Update and Remove that took the lock has completed its
\* body, the max level is 1 if the head has no successor above level 0, else
\* one more than the highest level index at which the head has a successor;
\* and the head has no successor at or above the max level.
C26_MaxLevelTight ==
    BodiesDone =>
        /\ lvl = IF HeadLevels \subseteq {0} THEN 1 ELSE 1 + MaxOf(HeadLevels)
        /\ \A i \in Levels : i >= lvl => next[head][i] = Nil

\* A Remove of a present user has run and the highest node left has
\* maxLevel - 1 levels.
C26_Witness ==
    /\ pc[1] = "rem_unlock"
    /\ call[1].user \in DOMAIN last
    /\ Cardinality(DOMAIN byUser) = 2
    /\ lvl = maxLevel - 1

\* The levels at which node n is linked into the chain from the head.
LevelsOf(n) == {i \in Levels : n \in NodesOf(Chain(SL, i))}

\* Whatever the generator returns, runs of successes longer than maxLevel
\* included, randomLevel is a level from 1 to maxLevel.
C27_RandomLevelCapped ==
    \A k \in 0..(maxLevel + 2) :
        /\ randomLevel([i \in 1..k |-> 24]) \in 1..maxLevel
        /\ randomLevel([i \in 1..(k + 1) |-> IF i <= k THEN 24 ELSE 25]) \in 1..maxLevel

\* C27: in every state the max level is from 1 to maxLevel; the level drawn
\* for a node is from 1 to maxLevel, the node is linked at exactly the
\* levels below it, and the max level is not below it; every node of the
\* board is linked at the levels below some level from 1 to maxLevel; every
\* forward-link array and the update vector of a search have exactly the
\* indexes 0 to maxLevel - 1, and every link is nil or a node.
C27_LevelsInRange ==
    /\ C27_RandomLevelCapped
    /\ lvl \in 1..maxLevel
    /\ \A p \in DOMAIN pc :
          pc[p] = "upd_unlock" =>
              /\ randomLevel(call[p].draws) \in 1..maxLevel
              /\ LevelsOf(byUser[call[p].user]) = 0..(randomLevel(call[p].draws) - 1)
              /\ lvl >= randomLevel(call[p].draws)
    /\ \A n \in NodesOf(Chain(SL, 0)) :
          \E k \in 1..maxLevel : LevelsOf(n) = 0..(k - 1)
    /\ \A n \in Nodes :
          /\ DOMAIN next[n] = 0..(maxLevel - 1)
          /\ \A i \in DOMAIN next[n] : next[n][i] \in Nodes \cup {Nil}
    /\ \A p \in DOMAIN pc :
          pc[p] \in {"upd_old", "upd_ins"} =>
              \A up \in {search(SL, Entry(call[p].user, call[p].score))} :
                  /\ DOMAIN up = 0..(maxLevel - 1)
                  /\ \A i \in 0..(lvl - 1) : up[i] \in Nodes

\* An Update has linked a node of maxLevel levels on a board that held one
\* of maxLevel - 1 levels.
C27_Witness ==
    /\ pc[1] = "upd_unlock"
    /\ randomLevel(call[1].draws) = maxLevel
    /\ lvl = maxLevel
    /\ Len(Chain(SL, maxLevel - 2)) = 2
    /\ Len(Chain(SL, maxLevel - 1)) = 1

\* C28: the step that links a new node whose drawn level is above the max
\* level raises the max level to exactly the drawn level and, at every level
\* from the old max level to the drawn level minus one, makes the new node
\* the head's successor, with no successor of its own; a drawn level that is
\* not above the max level leaves the max level as it was.
C28_LevelRaise ==
    [][\A p \in DOMAIN pc :
          (pc[p] = "upd_ins" /\ pc'[p] = "upd_unlock") =>
              /\ randomLevel(call'[p].draws) > lvl =>
                     /\ lvl' = randomLevel(call'[p].draws)
                     /\ \A i \in lvl..(randomLevel(call'[p].draws) - 1) :
                            /\ next'[head][i] = byUser'[call[p].user]
                            /\ next'[byUser'[call[p].user]][i] = Nil
              /\ randomLevel(call'[p].draws) <= lvl => lvl' = lvl]_vars

\* An Update has drawn maxLevel on a board of two levels: above level 1 the
\* new node is alone.
C28_Witness ==
    /\ pc[1] = "upd_unlock"
    /\ randomLevel(call[1].draws) = maxLevel
    /\ lvl = maxLevel
    /\ Len(Chain(SL, 1)) = 3
    /\ Chain(SL, 2) = <<byUser[call[1].user]>>

\* C29: of two concurrent mutations of the same user u, when one has
\* returned and the other has run its body, the board holds exactly one
\* entry for u, with the score of the second, if the second is an Update,
\* and no entry for u if it is a Remove; when both have returned the board
\* holds at most one entry for u, with a score that one of the calls
\* submitted, which is what Get(u) returns; and whenever no body is in
\* progress the four invariants of spec 3 hold.
C29_SameUserSerialized ==
    /\ \A p, q \in Procs :
          (pc[p] = "upd_unlock" /\ pc[q] = "idle") =>
              /\ Occurrences(TopN(SL, All), TheUser) = 1
              /\ Get(SL, TheUser) = <<Entry(TheUser, call[p].score), TRUE>>
    /\ \A p, q \in Procs :
          (pc[p] = "rem_unlock" /\ pc[q] = "idle") =>
              /\ Occurrences(TopN(SL, All), TheUser) = 0
              /\ Get(SL, TheUser) = <<ZeroEntry, FALSE>>
    /\ Quiet =>
          /\ Occurrences(TopN(SL, All), TheUser) <= 1
          /\ Get(SL, TheUser) = RefGet(last, TheUser)
          /\ \A i \in 1..Len(TopN(SL, All)) :
                 TopN(SL, All)[i].User = TheUser =>
                     /\ TopN(SL, All)[i].Score \in Scores
                     /\ TopN(SL, All)[i] = Get(SL, TheUser)[1]
    /\ BodiesDone =>
          OrderInv(SL) /\ TowerInv(SL) /\ IndexInv(SL) /\ LevelInv(SL)

\* Update(u, -5) has returned and the body of Update(u, 0) has run after
\* it, on a board that held u with another score and a second user.
C29_Witness ==
    /\ pc[1] = "idle"
    /\ pc[2] = "upd_unlock"
    /\ TheUser \in DOMAIN last
    /\ last[TheUser] = -5
    /\ call[2].score = 0
    /\ 2 \in DOMAIN byUser
    /\ lvl = 2

\* What callers observe of a board that shows the mapping m.
RefObs(m) ==
    [get |-> [v \in Users |-> RefGet(m, v)], top |-> [n \in TopArgs |-> RefTopN(m, n)]]

\* C30: whenever no call is in progress, every Get(u) and every TopN(n) is
\* what the calls that have returned determine, whatever levels were drawn
\* for the nodes of the board; and a further Update gives the same Get(u)
\* for every u and the same TopN(n) for every n whichever values the
\* generator returns for its node.
C30_DrawsUnobservable ==
    Quiet =>
        /\ Obs(SL) = RefObs(last)
        /\ \A u \in Users, sc \in Scores :
               \A o \in {Obs(Update(SL, u, sc, <<25>>))} :
                   \A d \in TallRuns : Obs(Update(SL, u, sc, d)) = o

\* A board of three entries on maxLevel levels whose first-ranked node has
\* one level only.
C30_Witness ==
    /\ Quiet
    /\ lvl = maxLevel
    /\ Len(Chain(SL, 0)) = 3
    /\ Chain(SL, 1) = <<Chain(SL, 0)[2], Chain(SL, 0)[3]>>
    /\ Chain(SL, maxLevel - 1) = <<Chain(SL, 0)[3]>>

\* The entries of out that are not of user u, in the order of out.
Without(out, u) == SelectSeq(out, LAMBDA x : x.User # u)

\* A step of the body of an Update or of a Remove by goroutine p.
BodyStep(p) == pc[p] \in {"upd_old", "upd_ins", "rem_body"} /\ pc'[p] # pc[p]

\* C31: every step of the body of Update(u, s) or Remove(u), and so the
\* whole call, leaves Get(v) as it was for every user v other than u, and
\* leaves the users other than u in TopN(size) in the order they had.
C31_OthersUntouched ==
    [][\A p \in Procs :
          BodyStep(p) =>
              /\ \A v \in Users \ {call[p].user} : Get(SL', v) = Get(SL, v)
              /\ Without(TopN(SL', All), call[p].user)
                     = Without(TopN(SL, All), call[p].user)]_vars

\* An Update has moved a user from between two others of its score to the
\* first rank.
C31_Witness ==
    \E p \in Procs :
        /\ pc[p] = "upd_unlock"
        /\ call[p].user = 1
        /\ DOMAIN last = {0, 1, 2}
        /\ \A v \in DOMAIN last : last[v] = -5
        /\ TopN(SL, 3) = <<Entry(1, 0), Entry(0, -5), Entry(2, -5)>>
        /\ lvl > 2

\* The two orders on a new board, with towers of 1, 2, 15 and 16 levels.
C32_TallTowers ==
    \A s \in Scores, t \in Scores, d1 \in TallRuns, d2 \in TallRuns :
        \A su \in {Update(NewSkipList, 1, s, d1)}, sv \in {Update(NewSkipList, 2, t, d2)} :
            Obs(Update(su, 2, t, d2)) = Obs(Update(sv, 1, s, d1))

\* C32: on every board the program reaches, for distinct users u and v,
\* Update(u, s) then Update(v, t) leaves the same Get(w) for every w and the
\* same TopN(n) for every n as Update(v, t) then Update(u, s); and so do
\* Update(u, s) then Remove(v) and Remove(v) then Update(u, s).
C32_OrderIndependent ==
    /\ C32_TallTowers
    /\ Quiet =>
          \A u \in Users, v \in Users, s \in Scores, d1 \in CoinRuns :
              u # v =>
                  \A su \in {Update(SL, u, s, d1)}, rv \in {Collect(Remove(SL, v))} :
                      /\ Obs(Collect(Remove(su, v))) = Obs(Update(rv, u, s, d1))
                      /\ u < v =>
                            \A t \in Scores, d2 \in CoinRuns :
                                \A sv \in {Update(SL, v, t, d2)} :
                                    Obs(Update(su, v, t, d2)) = Obs(Update(sv, u, s, d1))

\* Two calls for different users have returned and left a tie, on two levels.
C32_Witness ==
    /\ Quiet
    /\ DOMAIN last = {1, 2}
    /\ last[1] = last[2]
    /\ lvl = 2
    /\ Chain(SL, 1) = <<byUser[2]>>

\* C33: on every board the program reaches and for every user u the board
\* does not hold, Update(u, s) followed by Remove(u) leaves TopN(n) for every
\* n, Get(v) for every v and the max level as they were before the Update,
\* for every score and for every level drawn for u's node.
C33_UpdateRemoveRestores ==
    Quiet =>
        \A u \in Users \ DOMAIN byUser, s \in Scores, d \in TallRuns :
            \A su \in {Update(SL, u, s, d)} :
                \A r \in {Collect(Remove(su, u))} :
                    /\ Get(su, u)[2]
                    /\ Obs(r) = Obs(SL)
                    /\ r.lvl = lvl

\* A board of two users on two levels, and a third user whose node would
\* stand between them with maxLevel levels.
C33_Witness ==
    /\ Quiet
    /\ DOMAIN byUser = {0, 2}
    /\ lvl = 2
    /\ \E d \in TallRuns :
          /\ Update(SL, 1, -5, d).lvl = maxLevel
          /\ TopN(Update(SL, 1, -5, d), 3)[2].User = 1

\* The head is no node of the board s: it keeps the zero Entry, no chain
\* passes through it and the index does not point at it.
HeadApart(s) ==
    /\ s.e[head] = ZeroEntry
    /\ \A i \in Levels : head \notin NodesOf(Chain(s, i))
    /\ \A u \in DOMAIN s.byUser : s.byUser[u] # head

\* C34: the head stays apart from the nodes in every state; when
\* Update("", s) has run, Get("") is (Entry{"", s}, true) and TopN(size)
\* holds that entry once, at the rank the order gives it; and the step of
\* Remove("") on a board that holds "" leaves Get("") not found and exactly
\* the other entries in TopN(size), in their order.
C34_EmptyUserOrdinary ==
    [][/\ HeadApart(SL')
       /\ \A p \in Procs :
             /\ pc'[p] = "upd_unlock" /\ call'[p].user = EmptyUser =>
                   /\ Get(SL', EmptyUser) = <<Entry(EmptyUser, call'[p].score), TRUE>>
                   /\ Occurrences(TopN(SL', All), EmptyUser) = 1
                   /\ \E j \in 1..Len(TopN(SL', All)) :
                          TopN(SL', All)[j] = Entry(EmptyUser, call'[p].score)
                   /\ Ranked(TopN(SL', All))
             /\ (/\ pc[p] = "rem_body"
                 /\ pc'[p] = "rem_unlock"
                 /\ call[p].user = EmptyUser
                 /\ EmptyUser \in DOMAIN byUser) =>
                   /\ Get(SL', EmptyUser) = <<ZeroEntry, FALSE>>
                   /\ TopN(SL', All) = Without(TopN(SL, All), EmptyUser)
                   /\ Len(TopN(SL', All)) = Len(TopN(SL, All)) - 1
                   /\ DOMAIN byUser' = DOMAIN byUser \ {EmptyUser}]_vars

\* Remove("") has run on a board that held ("", 0), the Entry the head has,
\* ranked first of three.
C34_Witness ==
    \E p \in Procs :
        /\ pc[p] = "rem_unlock"
        /\ call[p].user = EmptyUser
        /\ DOMAIN last = {0, 1, 2}
        /\ last[EmptyUser] = 0
        /\ last[1] = -5
        /\ DOMAIN byUser = {1, 2}
        /\ Len(TopN(SL, All)) = 2

\* Goroutine p is about to call removeLocked(user, s.byUser[user].e): it is
\* at line 67 or at line 122 and the index holds the user of its call.
CallsRemoveLocked(p) ==
    /\ pc[p] \in {"upd_old", "rem_body"}
    /\ call[p].user \in DOMAIN byUser

\* update[0].next[0] after the leveled search of s for the Entry x.
targetOf(s, x) == s.next[search(s, x)[0]][0]

\* C35: whenever Update or Remove is about to call removeLocked with the
\* Entry of the node the index holds for the user, the leveled search ends
\* with update[0].next[0] being that node, so the early return is not taken;
\* and the call leaves the user out of the index and the node out of every
\* chain.
C35_TargetIsIndexed ==
    [][\A p \in Procs :
          (CallsRemoveLocked(p) /\ pc'[p] # pc[p]) =>
              /\ targetOf(SL, e[byUser[call[p].user]]) = byUser[call[p].user]
              /\ targetOf(SL, e[byUser[call[p].user]]) # Nil
              /\ e[targetOf(SL, e[byUser[call[p].user]])].User = call[p].user
              /\ call[p].user \notin DOMAIN byUser'
              /\ \A i \in Levels : byUser[call[p].user] \notin NodesOf(Chain(SL', i))
              /\ Len(Chain(SL', 0)) = Len(Chain(SL, 0)) - 1]_vars

\* removeLocked has run from Update for the last-ranked of three users, on a
\* board of maxLevel levels where the two others stay linked at level 1.
C35_Witness ==
    \E p \in Procs :
        /\ pc[p] = "upd_ins"
        /\ call[p].user = 2
        /\ DOMAIN last = {0, 1, 2}
        /\ \A v \in DOMAIN last : last[v] = -5
        /\ lvl = maxLevel
        /\ Len(Chain(SL, 1)) = 2

\* On the board s, at every level below the max level, upd[i] is the last
\* node of the chain of level i whose Entry stands before x in the order of
\* spec 4.2, or the head when no Entry of that chain does.
LastBefore(s, upd, x) ==
    \A i \in 0..(s.lvl - 1) :
        /\ \/ upd[i] = head
           \/ upd[i] \in NodesOf(Chain(s, i)) /\ Before(s.e[upd[i]], x)
        /\ \/ s.next[upd[i]][i] = Nil
           \/ ~Before(s.e[s.next[upd[i]][i]], x)
        /\ \A n \in NodesOf(Chain(s, i)) :
               Before(s.e[n], x) =>
                   /\ upd[i] # head
                   /\ PosIn(Chain(s, i), n) <= PosIn(Chain(s, i), upd[i])

\* The step changes no link of a node outside gone but next[upd[i]][i] for
\* i below top.
LinksOnlyAt(upd, top, gone) ==
    \A n \in Nodes \ gone, i \in Levels :
        next'[n][i] # next[n][i] => i < top /\ n = upd[i]

\* The update vector of Update after lines 81-86: the head at the levels the
\* draws raise.
raised(s, found, draws) ==
    [i \in Levels |-> IF i >= s.lvl /\ i < randomLevel(draws) THEN head ELSE found[i]]

\* C36: the update vector that the leveled search of Update and of
\* removeLocked leaves holds, at every level below the max level, the last
\* node whose Entry is before the target Entry, or the head; update[i] is the
\* head or has an Entry before the target, and update[i].next[i] is nil or
\* has an Entry that is not before the target; and the step changes the
\* links of the nodes that stay at these slots only: those below the drawn
\* level for the splice, those that point at the target for the removal.
C36_UpdateVector ==
    [][\A p \in Procs :
          /\ (pc[p] = "upd_ins" /\ pc'[p] = "upd_unlock") =>
                \A x \in {Entry(call[p].user, call[p].score)} :
                \A found \in {search(SL, x)} :
                    /\ LastBefore(SL, found, x)
                    /\ LinksOnlyAt(raised(SL, found, call'[p].draws),
                                   randomLevel(call'[p].draws),
                                   {byUser'[call[p].user]})
                    /\ \A i \in 0..(randomLevel(call'[p].draws) - 1) :
                           next'[raised(SL, found, call'[p].draws)[i]][i]
                               = byUser'[call[p].user]
          /\ (CallsRemoveLocked(p) /\ pc'[p] # pc[p]) =>
                \A x \in {e[byUser[call[p].user]]} :
                \A found \in {search(SL, x)} :
                    /\ LastBefore(SL, found, x)
                    /\ LinksOnlyAt(found, lvl, {byUser[call[p].user]})
                    /\ \A n \in Nodes \ {byUser[call[p].user]}, i \in Levels :
                           next'[n][i] # next[n][i] =>
                               next[n][i] = byUser[call[p].user]]_vars

\* An Update has spliced a node of two levels between two nodes of maxLevel
\* levels: the search stopped at the first of them at every level.
C36_Witness ==
    \E p \in Procs :
        /\ pc[p] = "upd_unlock"
        /\ randomLevel(call[p].draws) = 2
        /\ lvl = maxLevel
        /\ Len(Chain(SL, 0)) = 3
        /\ Chain(SL, 0)[2] = byUser[call[p].user]
        /\ Chain(SL, maxLevel - 1) = <<Chain(SL, 0)[1], Chain(SL, 0)[3]>>

\* The number of flips of d before the first that fails.
Leading(d) ==
    IF \E i \in 1..Len(d) : d[i] >= pFactor
    THEN (CHOOSE i \in 1..Len(d) :
              d[i] >= pFactor /\ \A j \in 1..(i - 1) : d[j] < pFactor) - 1
    ELSE Len(d)

\* The flips randomLevel takes from the stream d: the leading successes and
\* the failure after them, and no flip once maxLevel - 1 have succeeded.
Taking(d) == SubSeq(d, 1, MinOf(Leading(d) + 1, maxLevel - 1))

\* C37: for every stream of flips the level of the node Update links is 1
\* plus the number of flips before the first failure, and maxLevel when that
\* is more; randomLevel returns it from the leading successes and the first
\* failure alone, and from maxLevel - 1 successes without a further flip.
C37_LevelFromFlips ==
    \A p \in Procs :
        pc[p] = "upd_unlock" =>
            \A d \in {call[p].draws} :
                /\ randomLevel(d) = MinOf(1 + Leading(d), maxLevel)
                /\ randomLevel(d) = randomLevel(Taking(d))
                /\ randomLevel(d) - 1 <= maxLevel - 1
                /\ Leading(Taking(d)) <= maxLevel - 1
                /\ LevelsOf(byUser[call[p].user]) = 0..(MinOf(1 + Leading(d), maxLevel) - 1)
                /\ lvl = MinOf(1 + Leading(d), maxLevel)

\* The stream held maxLevel successes: the node has maxLevel levels.
C37_Witness ==
    \E p \in Procs :
        /\ pc[p] = "upd_unlock"
        /\ Leading(call[p].draws) = maxLevel
        /\ Len(call[p].draws) = maxLevel + 2
        /\ lvl = maxLevel

====
